---- MODULE Spec2Model ----
(***************************************************************************)
(* Model of danp/scrapeyourcity (src/main.go): one run() of the scraper    *)
(* after another against the same SQLite database file.                    *)
(*                                                                         *)
(* State: the three committed tables (contents, projects,                  *)
(* project_observations), the open transaction's working copy (tx), the    *)
(* position of run() (pc), the -urls list, the tiles of the listing read   *)
(* so far, the filtered project list, the loop index, the Project struct   *)
(* under construction (p) and the error run() returns.                     *)
(* History variables: committed, the units that committed, in order; log,  *)
(* the calls of the current run; interrupted, the unit that last failed    *)
(* half way. recording says which history a behaviour keeps in full: the   *)
(* tiles read ("tiles"), the interrupted unit ("attempts"), or neither.    *)
(***************************************************************************)
EXTENDS Integers, Sequences, FiniteSets, TLC

VARIABLES contents, projects, project_observations,
          tx, pc, onlyURLs, tiles, projectList, i, p, err,
          committed, log, interrupted, recording

vars == <<contents, projects, project_observations,
          tx, pc, onlyURLs, tiles, projectList, i, p, err,
          committed, log, interrupted, recording>>

(***************************************************************************)
(* Bounds of the model                                                     *)
(***************************************************************************)
\* most rows project_observations ever holds
MaxObs == 2
\* most tiles on the /projects listing page
MaxTiles == 2

(***************************************************************************)
(* Values                                                                  *)
(***************************************************************************)
\* SQL NULL, the value of a scalar subquery that selects no row
NULL == 0

NoTx == [open |-> FALSE]
NoErr == "nil"

\* h1 texts and bodies a project page can carry; 0 is the empty text
Titles == {1, 2}
Bodies == {1, 2}
\* per-request parts of a page that the removes strip (authenticity token ...)
Tokens == {1, 2}
\* whitespace layouts of the fetched markup; gohtml.Format yields layout 0
Layouts == {1, 2}
\* data-state attribute values of a tile
States == {"open", "archived"}

Base == "https://www.shapeyourcityhalifax.ca"
Hrefs == {"/alpha", "/beta", "/shape-your-city-halifax"}

\* url.Parse + ResolveReference of a path-absolute reference against Base
abs(s) == <<Base, s>>

Landing == abs("/shape-your-city-halifax")
URLs == {abs(h) : h \in Hrefs}

\* #yield selections get() can return for a project page; the empty
\* selection is what doc.Find gives when nothing matches
EmptySelection == [h1 |-> 0, body |-> 0, token |-> 0, ws |-> 0]
Selections == {EmptySelection} \cup
              [h1 : Titles, body : Bodies, token : Tokens, ws : Layouts]

\* lines 113-139: strip the volatile elements
Remove(sel) == [sel EXCEPT !.token = 0]
\* line 141
Title(sel) == sel.h1
\* lines 142-143: Html() then gohtml.Format: one canonical layout
Format(sel) == [sel EXCEPT !.ws = 0]
\* line 144: the markdown rendering keeps the text and drops the markup
ConvertString(html) == <<html.h1, html.body>>

\* the bytes of a document as a number, to feed the digest
Bytes(html) == ((html.h1 * 3 + html.body) * 3 + html.token) * 3 + html.ws

\* the values of the digest: fewer than there are documents
Sums == 0..3

\* line 149: a digest of fixed width
Sum224(html) == Bytes(html) % Cardinality(Sums)

\* line 150: base62 digits of the sum, most significant first
RECURSIVE EncodeToString(_)
EncodeToString(n) ==
  IF n < 62 THEN <<n>> ELSE Append(EncodeToString(n \div 62), n % 62)

HTMLSum(html) == EncodeToString(Sum224(html))

(***************************************************************************)
(* SQL statements of the unit, as functions on a database value            *)
(***************************************************************************)
DB(c, pr, o) == [contents |-> c, projects |-> pr, project_observations |-> o]

Max(S) == CHOOSE x \in S : \A y \in S : y <= x

\* line 168, time.Now(): a reading of the clock later than every stored one
Now(obs) == IF obs = {} THEN 1 ELSE Max({o.t : o \in obs}) + 1

\* rowid of a row inserted with a NULL INTEGER PRIMARY KEY
NextRowid(tbl) == IF tbl = {} THEN 1 ELSE Max({r.id : r \in tbl}) + 1

\* (SELECT id FROM tbl WHERE col = val)
SelectId(tbl, col, val) ==
  IF \E r \in tbl : r[col] = val
  THEN (CHOOSE r \in tbl : r[col] = val).id
  ELSE NULL

\* INSERT OR REPLACE: rows in conflict on the primary key or on the UNIQUE
\* column are deleted, then the row is inserted
InsertOrReplace(tbl, row, uniq) ==
  LET id  == IF row.id = NULL THEN NextRowid(tbl) ELSE row.id
      new == [row EXCEPT !.id = id]
  IN  {r \in tbl : r.id # id /\ r[uniq] # row[uniq]} \cup {new}

\* foreign_keys(1): checked when the statement ends
ForeignKeysHold(db) ==
  \A o \in db.project_observations :
    /\ o.project_id # NULL => \E r \in db.projects : r.id = o.project_id
    /\ o.content_id # NULL => \E r \in db.contents : r.id = o.content_id

\* line 159 as a plain INSERT into a table whose hash is not UNIQUE
PutContentAlwaysInsert(db, q) ==
  [db EXCEPT !.contents =
     @ \cup {[id |-> NextRowid(@), hash |-> q.HTMLSum, html |-> q.HTML,
              markdown |-> q.Markdown]}]

\* line 159
PutContent(db, q) ==
  [db EXCEPT !.contents =
     InsertOrReplace(@, [id |-> SelectId(@, "hash", q.HTMLSum),
                         hash |-> q.HTMLSum, html |-> q.HTML,
                         markdown |-> q.Markdown], "hash")]

\* line 163 as INSERT ... ON CONFLICT (url) DO UPDATE SET title: the state
\* of a known url is kept
UpsertProjectKeepState(db, q) ==
  [db EXCEPT !.projects =
     IF \E r \in @ : r.url = q.URL
     THEN {IF r.url = q.URL THEN [r EXCEPT !.title = q.Title] ELSE r : r \in @}
     ELSE @ \cup {[id |-> NextRowid(@), url |-> q.URL, title |-> q.Title,
                   state |-> q.State]}]

\* line 163 as INSERT OR IGNORE: the row of a known url is kept as it is
UpsertProjectIgnore(db, q) ==
  [db EXCEPT !.projects =
     IF \E r \in @ : r.url = q.URL
     THEN @
     ELSE @ \cup {[id |-> NextRowid(@), url |-> q.URL, title |-> q.Title,
                   state |-> q.State]}]

\* line 163 with the id looked up by title instead of url
UpsertProjectByTitle(db, q) ==
  [db EXCEPT !.projects =
     InsertOrReplace(@, [id |-> SelectId(@, "title", q.Title),
                         url |-> q.URL, title |-> q.Title,
                         state |-> q.State], "url")]

\* line 163
UpsertProject(db, q) ==
  [db EXCEPT !.projects =
     InsertOrReplace(@, [id |-> SelectId(@, "url", q.URL),
                         url |-> q.URL, title |-> q.Title,
                         state |-> q.State], "url")]

\* line 168 written like the two upserts: one observation row per project
AppendObservationUpsert(db, q, t) ==
  LET pid == SelectId(db.projects, "url", q.URL) IN
  [db EXCEPT !.project_observations =
     InsertOrReplace(@, [id |-> SelectId(@, "project_id", pid),
                         project_id |-> pid,
                         t |-> t,
                         content_id |-> SelectId(db.contents, "hash", q.HTMLSum)],
                     "project_id")]

\* line 168 with p.Markdown bound to the last parameter instead of p.HTMLSum
AppendObservationWrongArg(db, q, t) ==
  [db EXCEPT !.project_observations =
     @ \cup {[id |-> NextRowid(@),
              project_id |-> SelectId(db.projects, "url", q.URL),
              t |-> t,
              content_id |-> SelectId(db.contents, "hash", q.Markdown)]}]

\* line 168 with the project subquery repeated for content_id
AppendObservationSwapped(db, q, t) ==
  [db EXCEPT !.project_observations =
     @ \cup {[id |-> NextRowid(@),
              project_id |-> SelectId(db.projects, "url", q.URL),
              t |-> t,
              content_id |-> SelectId(db.projects, "url", q.URL)]}]

\* line 168 skipped when the project was already observed with the content
AppendObservationOnChange(db, q, t) ==
  LET pid == SelectId(db.projects, "url", q.URL)
      cid == SelectId(db.contents, "hash", q.HTMLSum)
  IN  IF \E o \in db.project_observations :
           o.project_id = pid /\ o.content_id = cid
      THEN db
      ELSE [db EXCEPT !.project_observations =
              @ \cup {[id |-> NextRowid(@), project_id |-> pid, t |-> t,
                       content_id |-> cid]}]

\* line 168
AppendObservation(db, q, t) ==
  [db EXCEPT !.project_observations =
     @ \cup {[id |-> NextRowid(@),
              project_id |-> SelectId(db.projects, "url", q.URL),
              t |-> t,
              content_id |-> SelectId(db.contents, "hash", q.HTMLSum)]}]

(***************************************************************************)
(* The listing page and the filter of lines 92-104                         *)
(***************************************************************************)
Tiles == [href : Hrefs, state : States]

Contains(s, x) == \E k \in 1..Len(s) : s[k] = x

\* the values of -urls after strings.Split (nil when the flag is empty)
OnlyURLs == {<<>>, <<abs("/beta")>>, <<abs("/alpha"), Landing>>}

NoProject == [Title |-> 0, State |-> "", URL |-> <<>>,
              HTMLSum |-> <<>>, HTML |-> EmptySelection, Markdown |-> <<>>]

\* a tile that was read and is not on record
NoTile == [href |-> "", state |-> ""]

\* lines 93-96
FromTile(tile) ==
  [NoProject EXCEPT !.State = tile.state, !.URL = abs(tile.href)]

\* lines 97-102 with the denylist consulted only when no -urls is given
KeptAllowListFirst(q, only) ==
  IF Len(only) > 0 THEN Contains(only, q.URL) ELSE q.URL # Landing

\* lines 97-102: neither continue is taken
Kept(q, only) ==
  /\ q.URL # Landing
  /\ ~(Len(only) > 0 /\ ~Contains(only, q.URL))

(***************************************************************************)
(* run()                                                                   *)
(***************************************************************************)
\* no interrupted unit on record
NoAttempt == [p |-> NoProject, db |-> DB({}, {}, {}), retried |-> FALSE]

\* lines 24-32: the program starts on a database file that does not exist yet
Start(rec) ==
  /\ contents = {}
  /\ projects = {}
  /\ project_observations = {}
  /\ tx = NoTx
  /\ pc = "main"
  /\ onlyURLs = <<>>
  /\ tiles = <<>>
  /\ projectList = <<>>
  /\ i = 0
  /\ p = NoProject
  /\ err = NoErr
  /\ committed = <<>>
  /\ log = <<>>
  /\ interrupted = NoAttempt
  /\ recording = rec

Init == Start("none")

db == DB(contents, projects, project_observations)

tables == <<contents, projects, project_observations>>

\* an event of the run: what was called, for which entry of the list
Event(op) == [op |-> op, i |-> i]

\* history of the unit that last failed between its content insert and its
\* observation insert: forgotten when another unit is fetched or commits
Observe ==
  /\ recording' = recording
  /\ interrupted' =
       IF recording # "attempts" THEN interrupted
       ELSE IF pc \in {"projects", "observations"}
               /\ pc' \in {"rollback", "exit"}
            THEN [p |-> p, db |-> db, retried |-> FALSE]
       ELSE IF pc = "fetch" /\ pc' = "begin" /\ p' # interrupted.p
            THEN NoAttempt
       ELSE IF pc = "commit" /\ pc' = "sleep"
            THEN IF interrupted # NoAttempt /\ interrupted.p = p
                 THEN [interrupted EXCEPT !.retried = TRUE]
                 ELSE NoAttempt
       ELSE IF pc = "sleep" THEN NoAttempt
       ELSE interrupted

\* run() returns e to main: its locals are gone
Return(e) ==
  /\ pc' = "exit"
  /\ err' = e
  /\ tiles' = <<>>
  /\ projectList' = <<>>
  /\ i' = 0
  /\ p' = NoProject

\* lines 24-80: parse the flags, open the database, create the tables if
\* missing, get the listing page
StartRun ==
  /\ pc = "main"
  /\ \E only \in OnlyURLs : onlyURLs' = only
  /\ pc' = "discover"
  /\ UNCHANGED <<tables, tx, tiles, projectList, i, p, err, committed, log>>
  /\ Observe

\* lines 45-47, 51-63, 78-80: opening the database or getting the listing fails
StartRunFails ==
  /\ pc = "main"
  /\ \E only \in OnlyURLs : onlyURLs' = only
  /\ \E e \in {"StorageError", "TransportError"} : Return(e)
  /\ UNCHANGED <<tables, tx, committed, log>>
  /\ Observe

\* lines 92-104, one iteration: the next .project-tile of the listing
DiscoverTile ==
  /\ pc = "discover"
  /\ Len(tiles) < MaxTiles
  /\ \E tile \in Tiles :
       LET q == FromTile(tile) IN
       /\ tiles' = Append(tiles, IF recording = "tiles" THEN tile ELSE NoTile)
       /\ IF Kept(q, onlyURLs)
          THEN /\ Len(projectList) + Cardinality(project_observations) < MaxObs
               /\ projectList' = Append(projectList, q)
          ELSE projectList' = projectList
  /\ UNCHANGED <<tables, tx, pc, onlyURLs, i, p, err, committed, log>>
  /\ Observe

\* line 104 after the last tile: the iterator is gone; line 106 enters the
\* loop, or line 185 returns when no project is left
DiscoverDone ==
  /\ pc = "discover"
  /\ IF projectList = <<>>
     THEN Return(NoErr)
     ELSE /\ pc' = "fetch"
          /\ i' = 1
          /\ tiles' = <<>>
          /\ UNCHANGED <<projectList, p, err>>
  /\ UNCHANGED <<tables, tx, onlyURLs, committed, log>>
  /\ Observe

\* lines 106-150: get the page, clean it, format it, convert it, sum it
Fetch ==
  /\ pc = "fetch"
  /\ \E sel \in Selections :
       LET clean == Remove(sel)
           html  == Format(clean)
       IN  p' = [projectList[i] EXCEPT
                   !.Title = Title(clean),
                   !.HTML = html,
                   !.Markdown = ConvertString(html),
                   !.HTMLSum = HTMLSum(html)]
  /\ pc' = "begin"
  /\ log' = Append(log, Event("fetch"))
  /\ UNCHANGED <<tables, tx, onlyURLs, tiles, projectList, i, err, committed>>
  /\ Observe

\* lines 109-111 with the error logged and the entity skipped
FetchFailsSkips ==
  /\ pc = "fetch"
  /\ IF i < Len(projectList)
     THEN /\ i' = i + 1
          /\ pc' = "fetch"
          /\ UNCHANGED <<tiles, projectList, p, err>>
     ELSE Return(NoErr)
  /\ log' = Append(log, Event("fetch"))
  /\ UNCHANGED <<tables, tx, onlyURLs, committed>>
  /\ Observe

\* lines 109-111 with the get of the same entity tried again on an error
FetchFailsRetries ==
  /\ pc = "fetch"
  /\ pc' = "fetch"
  /\ log' = Append(log, Event("fetch"))
  /\ UNCHANGED <<tables, tx, onlyURLs, tiles, projectList, i, p, err,
                 committed>>
  /\ Observe

\* lines 109-111 returning fmt.Errorf("fetching: %w", err)
FetchFailsWrapped ==
  /\ pc = "fetch"
  /\ \E e \in {"fetching: TransportError", "ConvertError"} : Return(e)
  /\ log' = Append(log, Event("fetch"))
  /\ UNCHANGED <<tables, tx, onlyURLs, committed>>
  /\ Observe

\* lines 109-111, 145-147: get or ConvertString returns an error
FetchFails ==
  /\ pc = "fetch"
  /\ \E e \in {"TransportError", "ConvertError"} : Return(e)
  /\ log' = Append(log, Event("fetch"))
  /\ UNCHANGED <<tables, tx, onlyURLs, committed>>
  /\ Observe

\* line 153
Begin ==
  /\ pc = "begin"
  /\ tx' = [open |-> TRUE, db |-> db]
  /\ pc' = "contents"
  /\ log' = Append(log, Event("begin"))
  /\ UNCHANGED <<tables, onlyURLs, tiles, projectList, i, p, err, committed>>
  /\ Observe

\* lines 154-156
BeginFails ==
  /\ pc = "begin"
  /\ Return("StorageError")
  /\ log' = Append(log, Event("begin"))
  /\ UNCHANGED <<tables, tx, onlyURLs, committed>>
  /\ Observe

\* one tx.Exec: the statement applies to the transaction's view unless it
\* leaves a foreign key dangling
Exec(at, next, after) ==
  /\ pc = at
  /\ IF ForeignKeysHold(after)
     THEN /\ tx' = [tx EXCEPT !.db = after]
          /\ pc' = next
          /\ err' = err
     ELSE /\ tx' = tx
          /\ pc' = "rollback"
          /\ err' = "IntegrityViolation"
  /\ UNCHANGED <<tables, onlyURLs, tiles, projectList, i, p, committed, log>>
  /\ Observe

\* line 159 run on db instead of tx: the statement commits by itself
ExecContentsAutocommit ==
  /\ pc = "contents"
  /\ contents' = PutContent(db, p).contents
  /\ pc' = "projects"
  /\ UNCHANGED <<projects, project_observations, tx, onlyURLs, tiles,
                 projectList, i, p, err, committed, log>>
  /\ Observe

\* lines 159-162
ExecContents == Exec("contents", "projects", PutContent(tx.db, p))
\* lines 163-171 with the two statements exchanged: the observation is
\* inserted before the project row is put
ExecProjectsAfterObservation ==
  Exec("projects", "commit",
       UpsertProject(AppendObservation(tx.db, p,
                                       Now(tx.db.project_observations)), p))

\* lines 163-166
ExecProjects == Exec("projects", "observations", UpsertProject(tx.db, p))
\* lines 168-171
ExecObservations ==
  Exec("observations", "commit",
       AppendObservation(tx.db, p, Now(tx.db.project_observations)))

\* lines 160-162, 164-166, 169-171: the statement fails in the storage layer
ExecFails ==
  /\ pc \in {"contents", "projects", "observations"}
  /\ err' = "StorageError"
  /\ pc' = "rollback"
  /\ UNCHANGED <<tables, tx, onlyURLs, tiles, projectList, i, p, committed,
                 log>>
  /\ Observe

\* line 173: the transaction's view becomes the database
Commit ==
  /\ pc = "commit"
  /\ contents' = tx.db.contents
  /\ projects' = tx.db.projects
  /\ project_observations' = tx.db.project_observations
  /\ tx' = NoTx
  /\ committed' = Append(committed, [p |-> p])
  /\ pc' = "sleep"
  /\ log' = Append(log, Event("commit"))
  /\ UNCHANGED <<onlyURLs, tiles, projectList, i, p, err>>
  /\ Observe

\* lines 173-175 with the error logged and the loop continued, the transaction
\* left for a deferred call at the end of run()
CommitFailsContinues ==
  /\ pc = "commit"
  /\ pc' = "sleep"
  /\ UNCHANGED <<tables, tx, onlyURLs, tiles, projectList, i, p, err,
                 committed, log>>
  /\ Observe

\* lines 173-175
CommitFails ==
  /\ pc = "commit"
  /\ err' = "StorageError"
  /\ pc' = "rollback"
  /\ UNCHANGED <<tables, tx, onlyURLs, tiles, projectList, i, p, committed,
                 log>>
  /\ Observe

\* line 157 as defer tx.Commit(): what the unit wrote so far is kept
RollbackCommits ==
  /\ pc = "rollback"
  /\ contents' = tx.db.contents
  /\ projects' = tx.db.projects
  /\ project_observations' = tx.db.project_observations
  /\ tx' = NoTx
  /\ Return(err)
  /\ UNCHANGED <<onlyURLs, committed, log>>
  /\ Observe

\* line 157, deferred: drop the transaction's view; lines 178-180: return
Rollback ==
  /\ pc = "rollback"
  /\ tx' = NoTx
  /\ Return(err)
  /\ UNCHANGED <<tables, onlyURLs, committed, log>>
  /\ Observe


\* lines 106-183 without line 182: the loop goes to the next entity at once
SleepOmitted ==
  /\ pc = "sleep"
  /\ IF i < Len(projectList)
     THEN /\ i' = i + 1
          /\ pc' = "fetch"
          /\ UNCHANGED <<tiles, projectList, p, err>>
     ELSE Return(NoErr)
  /\ UNCHANGED <<tables, tx, onlyURLs, committed, log>>
  /\ Observe

\* lines 182-183 and the loop's step; line 185 after the last project
Sleep ==
  /\ pc = "sleep"
  /\ IF i < Len(projectList)
     THEN /\ i' = i + 1
          /\ pc' = "fetch"
          /\ UNCHANGED <<tiles, projectList, p, err>>
     ELSE Return(NoErr)
  /\ log' = Append(log, Event("sleep"))
  /\ UNCHANGED <<tables, tx, onlyURLs, committed>>
  /\ Observe

\* the process dies in the middle of a run: an open transaction is lost
Crash ==
  /\ pc \notin {"main", "exit"}
  /\ tx' = NoTx
  /\ Return("killed")
  /\ UNCHANGED <<tables, onlyURLs, committed, log>>
  /\ Observe

\* lines 24-41: the program is started again on the same database file
Restart ==
  /\ pc = "exit"
  /\ pc' = "main"
  /\ onlyURLs' = <<>>
  /\ err' = NoErr
  /\ log' = <<>>
  /\ UNCHANGED <<tables, tx, tiles, projectList, i, p, committed>>
  /\ Observe

Next ==
  \/ StartRun
  \/ StartRunFails
  \/ DiscoverTile
  \/ DiscoverDone
  \/ Fetch
  \/ FetchFails
  \/ Begin
  \/ BeginFails
  \/ ExecContents
  \/ ExecProjects
  \/ ExecObservations
  \/ ExecFails
  \/ Commit
  \/ CommitFails
  \/ Rollback
  \/ Sleep
  \/ Crash
  \/ Restart

Spec == Init /\ [][Next]_vars

\* the same program, with the interrupted unit on record
InitAttempts == Start("attempts")
SpecAttempts == InitAttempts /\ [][Next]_vars

\* a step of one execution of the program, from its start on a new
\* database file until run() returns or the process dies
Step ==
  \/ StartRun
  \/ StartRunFails
  \/ DiscoverTile
  \/ DiscoverDone
  \/ Fetch
  \/ FetchFails
  \/ Begin
  \/ BeginFails
  \/ ExecContents
  \/ ExecProjects
  \/ ExecObservations
  \/ ExecFails
  \/ Commit
  \/ CommitFails
  \/ Rollback
  \/ Sleep
  \/ Crash

\* one execution, with the tiles of the listing on record
InitTiles == Start("tiles")
SpecTiles == InitTiles /\ [][Step]_vars

\* run() is one goroutine that is never blocked by the program itself; on
\* the assumption that every call to the network and to the database
\* returns, a started program goes on until run() returns
InitFair == Start("none")
SpecFair == InitFair /\ [][Step]_vars /\ WF_vars(Step)

(***************************************************************************)
(* Reading the history and the tables                                      *)
(***************************************************************************)
\* the whole unit of lines 159-171 applied to a database value
ApplyUnit(d, q, t) == AppendObservation(UpsertProject(PutContent(d, q), q), q, t)

\* positions in the history of the units committed for identifier u
UnitsFor(u) == {k \in 1..Len(committed) : committed[k].p.URL = u}

\* identifiers and fingerprints of the committed units
CommittedURLs == {committed[k].p.URL : k \in 1..Len(committed)}
CommittedSums == {committed[k].p.HTMLSum : k \in 1..Len(committed)}

\* the observation rows of the project row whose url is u
ObservationsOf(u) ==
  {o \in project_observations :
     \E r \in projects : r.url = u /\ r.id = o.project_id}

(***************************************************************************)
(* C1: the unit is all-or-nothing. The committed tables change only in the *)
(* step that commits, and then by the whole unit (content put, project     *)
(* upsert, observation append) at once; a failed statement, a failed       *)
(* commit, a rollback or a crash leaves them as they were, so a reader of  *)
(* the committed tables never sees a part of a unit.                       *)
(***************************************************************************)
UnitIsAtomic ==
  [][tables' # tables => (pc = "commit" /\ db' = ApplyUnit(db, p, Now(project_observations)))]_vars

\* a unit failed after its content and project writes, with earlier units
\* committed, and the committed tables do not show those writes
UnitIsAtomicWitness ==
  /\ pc = "rollback"
  /\ tx.open
  /\ tx.db.contents # contents
  /\ tx.db.projects # projects
  /\ project_observations # {}

(***************************************************************************)
(* C2: dedup. The committed contents table holds exactly one row for each  *)
(* fingerprint a committed unit stored, and none else, each row's hash is  *)
(* the fingerprint of its html; inside a transaction, too, a fingerprint   *)
(* has one row, however many units or identifiers supplied the bytes.      *)
(***************************************************************************)
OneRowPerSum(tbl) == \A r1, r2 \in tbl : r1.hash = r2.hash => r1 = r2

DedupIdempotent ==
  /\ OneRowPerSum(contents)
  /\ {r.hash : r \in contents} = CommittedSums
  /\ Cardinality(contents) = Cardinality(CommittedSums)
  /\ \A r \in contents : r.hash = HTMLSum(r.html)
  /\ tx.open => OneRowPerSum(tx.db.contents)

\* two identifiers supplied the same bytes in committed units
DedupIdempotentWitness ==
  /\ \E j, k \in 1..Len(committed) :
       /\ j < k
       /\ committed[j].p.HTML = committed[k].p.HTML
       /\ committed[j].p.URL # committed[k].p.URL
  /\ Cardinality(contents) = 1

(***************************************************************************)
(* C3: entity upsert. The committed projects table holds one row for each  *)
(* identifier of a committed unit and none else, and the row's title and   *)
(* state are those of the most recent committed unit for the identifier.   *)
(***************************************************************************)
UpsertIdempotent ==
  /\ \A r1, r2 \in projects : r1.url = r2.url => r1 = r2
  /\ {r.url : r \in projects} = CommittedURLs
  /\ \A r \in projects :
       LET last == committed[Max(UnitsFor(r.url))].p
       IN  r.title = last.Title /\ r.state = last.State

\* an identifier was committed twice, with another title and another state
UpsertIdempotentWitness ==
  \E j, k \in 1..Len(committed) :
    /\ j < k
    /\ committed[j].p.URL = committed[k].p.URL
    /\ committed[j].p.Title # committed[k].p.Title
    /\ committed[j].p.State # committed[k].p.State

(***************************************************************************)
(* C4: observations are append-only. In every committed state an           *)
(* identifier has as many observation rows as units committed for it,      *)
(* whether or not the content changed, and no step removes or changes an   *)
(* observation row.                                                        *)
(***************************************************************************)
ObservationAppendOnly ==
  /\ [](\A u \in URLs :
          Cardinality(ObservationsOf(u)) = Cardinality(UnitsFor(u)))
  /\ [](Cardinality(project_observations) = Len(committed))
  /\ [][project_observations \subseteq project_observations']_vars

\* an identifier was committed twice with the same content
ObservationAppendOnlyWitness ==
  \E j, k \in 1..Len(committed) :
    /\ j < k
    /\ committed[j].p.URL = committed[k].p.URL
    /\ committed[j].p.HTML = committed[k].p.HTML
    /\ Cardinality(ObservationsOf(committed[j].p.URL)) = 2

(***************************************************************************)
(* C5: referential integrity. In every committed state every observation   *)
(* row has a project_id that is not NULL and is the id of a projects row,  *)
(* and a content_id that is not NULL and is the id of a contents row.      *)
(***************************************************************************)
ReferentialIntegrity ==
  \A o \in project_observations :
    /\ o.project_id # NULL
    /\ \E r \in projects : r.id = o.project_id
    /\ o.content_id # NULL
    /\ \E r \in contents : r.id = o.content_id

\* observations of two projects and two contents are committed
ReferentialIntegrityWitness ==
  /\ Cardinality({o.project_id : o \in project_observations}) = 2
  /\ Cardinality({o.content_id : o \in project_observations}) = 2

(***************************************************************************)
(* C6: put never overwrites. When the put of line 159 runs with bytes that *)
(* differ from the html stored under the same fingerprint, the unit aborts *)
(* and no committed row ever gets another html or markdown.                *)
(***************************************************************************)
Collision ==
  /\ pc = "contents"
  /\ \E r \in tx.db.contents : r.hash = p.HTMLSum /\ r.html # p.HTML

PutNeverOverwrites ==
  /\ [][Collision => pc' \in {"rollback", "exit"}]_vars
  /\ [][\A r \in contents : \E r2 \in contents' :
          r2.hash = r.hash /\ r2.html = r.html /\ r2.markdown = r.markdown]_vars

(***************************************************************************)
(* C7: content is never mutated or deleted. A committed contents row stays *)
(* in every later committed state with its id, html and markdown, and the  *)
(* k-th observation keeps resolving to the html observed by the k-th unit. *)
(***************************************************************************)
ContentNeverMutated ==
  /\ [][contents \subseteq contents']_vars
  /\ [](\A k \in 1..Len(committed) :
          \E o \in project_observations, c \in contents :
            o.id = k /\ c.id = o.content_id /\ c.html = committed[k].p.HTML)

(***************************************************************************)
(* C8: stable entity identity. The id of the projects row of an identifier *)
(* never changes, and the k-th observation carries the id of the row of    *)
(* the identifier the k-th unit was for, whatever was upserted since.      *)
(***************************************************************************)
StableEntityIdentity ==
  /\ [][\A r \in projects : \E r2 \in projects' :
          r2.url = r.url /\ r2.id = r.id]_vars
  /\ [](\A k \in 1..Len(committed) :
          \E o \in project_observations, r \in projects :
            o.id = k /\ r.url = committed[k].p.URL /\ o.project_id = r.id)

\* an identifier was upserted again with another title after its first
\* observation, and both observations are its row's
StableEntityIdentityWitness ==
  \E j, k \in 1..Len(committed) :
    /\ j < k
    /\ committed[j].p.URL = committed[k].p.URL
    /\ committed[j].p.Title # committed[k].p.Title
    /\ Cardinality(ObservationsOf(committed[j].p.URL)) = 2
    /\ Cardinality(projects) = 1

LatestObservation(u) ==
  CHOOSE o \in ObservationsOf(u) : \A o2 \in ObservationsOf(u) : o2.id <= o.id

Unchanged ==
  \E r \in projects, c \in contents :
    /\ r.url = p.URL /\ r.title = p.Title /\ r.state = p.State
    /\ c.id = LatestObservation(p.URL).content_id
    /\ c.hash = p.HTMLSum /\ c.html = p.HTML /\ c.markdown = p.Markdown

(***************************************************************************)
(* C10: re-observing an identifier whose bytes, title and state are those  *)
(* the tables hold for it leaves contents and projects as they were and    *)
(* adds exactly one observation row, for the same project row and the      *)
(* contents row of its latest observation.                                 *)
(***************************************************************************)
ReobservationOnlyAppends ==
  [][(pc = "commit" /\ pc' = "sleep" /\ Unchanged) =>
       /\ contents' = contents
       /\ projects' = projects
       /\ \E o \in project_observations' :
            /\ o \notin project_observations
            /\ project_observations' = project_observations \cup {o}
            /\ o.project_id = LatestObservation(p.URL).project_id
            /\ o.content_id = LatestObservation(p.URL).content_id]_vars

\* the unit just committed repeats the previous unit of its identifier
ReobservationOnlyAppendsWitness ==
  /\ pc = "sleep"
  /\ \E j \in 1..Len(committed) :
       /\ j # Len(committed)
       /\ j \in UnitsFor(p.URL)
       /\ \A k \in UnitsFor(p.URL) \ {Len(committed)} : k <= j
       /\ committed[j].p = p
       /\ committed[Len(committed)].p = p
       /\ \A k \in j..Len(committed) : committed[k].p.HTMLSum = p.HTMLSum
                                          => committed[k].p.HTML = p.HTML

(***************************************************************************)
(* C11: retry after an interrupted unit. A unit that failed after its      *)
(* content insert and before its observation insert leaves the committed   *)
(* tables as they were and no transaction open; when the same unit is run  *)
(* again and commits, the committed tables are those a single success on   *)
(* the tables before the failed attempt gives: one contents row for the    *)
(* fingerprint, one projects row for the url, one more observation.        *)
(***************************************************************************)
RetryIsClean ==
  /\ []((interrupted # NoAttempt /\ ~interrupted.retried) =>
          /\ db = interrupted.db
          /\ pc \in {"exit", "main", "discover", "fetch", "begin"} => tx = NoTx)
  /\ [][(pc = "commit" /\ pc' = "sleep"
         /\ interrupted # NoAttempt /\ interrupted.p = p) =>
          LET before == interrupted.db IN
          /\ db' = ApplyUnit(before, p, Now(before.project_observations))
          /\ Cardinality({r \in contents' : r.hash = p.HTMLSum}) = 1
          /\ Cardinality({r \in projects' : r.url = p.URL}) = 1
          /\ Cardinality(project_observations') =
               Cardinality(before.project_observations) + 1]_vars

\* the unit that was interrupted has been run again and has committed, on
\* tables that held an earlier unit
RetryIsCleanWitness ==
  /\ pc = "sleep"
  /\ interrupted.retried
  /\ interrupted.p = p
  /\ interrupted.db.project_observations # {}

\* the tiles ts in their order, without the landing page and, when an
\* allow-list is given, without the urls it does not name
RECURSIVE Filtered(_, _)
Filtered(ts, only) ==
  IF ts = <<>> THEN <<>>
  ELSE LET q == FromTile(Head(ts))
           allowed == only = <<>> \/ \E k \in 1..Len(only) : only[k] = q.URL
       IN  (IF q.URL # Landing /\ allowed THEN <<q>> ELSE <<>>)
           \o Filtered(Tail(ts), only)

(***************************************************************************)
(* C12: the discovery filter. The list to process is the discovered list   *)
(* in discovery order without the landing page, also when -urls names it,  *)
(* restricted to the urls of -urls when -urls is given and unrestricted    *)
(* when it is empty; the list does not change while it is processed.       *)
(***************************************************************************)
DiscoveryFilter ==
  /\ [](pc = "discover" => projectList = Filtered(tiles, onlyURLs))
  /\ [][(pc \notin {"main", "exit"} /\ pc' \notin {"discover", "exit"})
          => projectList' = projectList]_vars

\* -urls names the landing page and one project; the listing showed the
\* landing page first and then that project, which alone is on the list
DiscoveryFilterWitness ==
  /\ pc = "discover"
  /\ Contains(onlyURLs, Landing)
  /\ Len(tiles) = 2
  /\ abs(tiles[1].href) = Landing
  /\ Len(projectList) = 1

\* the positions of the log where op was called
Calls(op) == {n \in 1..Len(log) : log[n].op = op}

\* run() is inside the unit of lines 152-177
InUnit == pc \in {"contents", "projects", "observations", "commit", "rollback"}

(***************************************************************************)
(* C13: sequential processing. A transaction is open only inside the unit  *)
(* and none is open when one begins; the entries of the list are fetched   *)
(* in list order, entry k+1 only after the unit of entry k committed, a    *)
(* unit that aborts being the last of the run; the unit in progress is the *)
(* one of the entry fetched last.                                          *)
(***************************************************************************)
SequentialProcessing ==
  /\ [](tx.open => InUnit)
  /\ [](pc = "begin" => ~tx.open)
  /\ [](\A n \in Calls("fetch") :
          /\ log[n].i = Cardinality({m \in Calls("fetch") : m <= n})
          /\ log[n].i > 1 =>
               \E m \in Calls("commit") : m < n /\ log[m].i = log[n].i - 1)
  /\ []((InUnit \/ pc \in {"begin", "sleep"}) =>
          /\ i \in 1..Len(projectList)
          /\ p.URL = projectList[i].URL
          /\ Cardinality(Calls("fetch")) = i)

\* the second entry of the list is in its unit, after the first committed
SequentialProcessingWitness ==
  /\ pc = "observations"
  /\ i = 2
  /\ tx.open
  /\ Cardinality(Calls("commit")) = 1

\* lines 190-203: the errors of NewRequestWithContext, Do and
\* NewDocumentFromReader, as get() hands them to run()
TransportErrors == {"TransportError"}

(***************************************************************************)
(* C14: when get() fails for an entity, run() returns at line 110: no      *)
(* transaction was begun for the entity and none is open, no row of the    *)
(* three tables is written or changed, the units committed so far stay,    *)
(* and what run() returns is the error of get() itself. (An empty log is   *)
(* the failure of the listing's fetch at line 77, before any entity.)      *)
(***************************************************************************)
TransportErrorAborts ==
  /\ [][(pc = "fetch" /\ pc' = "exit" /\ log' # log) =>
          /\ err' \in TransportErrors \cup {"ConvertError"}
          /\ tables' = tables
          /\ committed' = committed
          /\ ~tx.open /\ ~tx'.open
          /\ \A n \in Calls("begin") : log[n].i # i]_vars
  /\ []((err \in TransportErrors /\ log # <<>>) =>
          /\ pc = "exit"
          /\ ~tx.open
          /\ log[Len(log)].op = "fetch"
          /\ Cardinality(Calls("commit")) = log[Len(log)].i - 1)

\* the fetch of the second entity failed after the unit of the first committed
TransportErrorAbortsWitness ==
  /\ pc = "exit"
  /\ err \in TransportErrors
  /\ log # <<>>
  /\ log[Len(log)] = [op |-> "fetch", i |-> 2]
  /\ Cardinality(Calls("commit")) = 1
  /\ contents # {} /\ projects # {} /\ project_observations # {}

\* what lines 141-143 make of a page with no #yield element
NoContainer == Format(Remove(EmptySelection))

\* C15: a page whose container selector matches nothing aborts the entity:
\* run() does not go on to the unit with it and no unit is committed for it.
ExtractionErrorAborts ==
  /\ (pc = "begin" \/ InUnit) => p.HTML # NoContainer
  /\ \A k \in 1..Len(committed) : committed[k].p.HTML # NoContainer

\* the calls of op made for entry k of the list in this run
CallsFor(op, k) == {n \in Calls(op) : log[n].i = k}

(***************************************************************************)
(* C16: no retry. In one run no entry of the list is fetched twice and no  *)
(* entry has two transactions begun for it; once a step has failed (run()  *)
(* is at the deferred Rollback or has returned) the run fetches nothing    *)
(* and begins nothing more.                                                *)
(***************************************************************************)
NoRetry ==
  /\ [](\A k \in 1..MaxTiles :
          /\ Cardinality(CallsFor("fetch", k)) <= 1
          /\ Cardinality(CallsFor("begin", k)) <= 1
          /\ Cardinality(CallsFor("begin", k)) <=
               Cardinality(CallsFor("fetch", k)))
  /\ [][(pc \in {"rollback", "exit"}) =>
          (pc' \in {"exit", "main"} /\ (log' = log \/ pc' = "main"))]_vars

\* a write of the unit of the second entry failed and run() returned
NoRetryWitness ==
  /\ pc = "exit"
  /\ err = "StorageError"
  /\ CallsFor("begin", 2) # {}
  /\ CallsFor("commit", 2) = {}

\* the rows a unit for q refers to, in the view d
ContentRows(d, q) == {r \in d.contents : r.hash = q.HTMLSum}
ProjectRows(d, q) == {r \in d.projects : r.url = q.URL}

(***************************************************************************)
(* C17: ordering inside the unit. The transaction writes contents only in  *)
(* its first statement, projects only in its second and                    *)
(* project_observations only in its third; after the first the content row *)
(* of the fingerprint is in the transaction's view, after the second the   *)
(* project row of the url too, and the observation inserted by the third   *)
(* refers to the ids of these two rows.                                    *)
(***************************************************************************)
OrderInsideUnit ==
  /\ [](pc \in {"projects", "observations", "commit"} =>
          Cardinality(ContentRows(tx.db, p)) = 1)
  /\ [](pc \in {"observations", "commit"} =>
          Cardinality(ProjectRows(tx.db, p)) = 1)
  /\ [][(tx.open /\ tx'.open) =>
          /\ tx'.db.contents # tx.db.contents => pc = "contents"
          /\ tx'.db.projects # tx.db.projects => pc = "projects"
          /\ tx'.db.project_observations # tx.db.project_observations =>
               /\ pc = "observations"
               /\ \E c \in ContentRows(tx.db, p), r \in ProjectRows(tx.db, p) :
                    \E o \in tx'.db.project_observations :
                      /\ tx'.db.project_observations =
                           tx.db.project_observations \cup {o}
                      /\ o.content_id = c.id
                      /\ o.project_id = r.id]_vars

\* the unit is complete and both rows its observation refers to were
\* created inside this transaction
OrderInsideUnitWitness ==
  /\ pc = "commit"
  /\ ContentRows(db, p) = {}
  /\ ProjectRows(db, p) = {}
  /\ \E o \in tx.db.project_observations \ project_observations :
       /\ o.content_id \in {c.id : c \in ContentRows(tx.db, p)}
       /\ o.project_id \in {r.id : r \in ProjectRows(tx.db, p)}

(***************************************************************************)
(* C18: politeness delay. Between two fetches of entity pages in one run   *)
(* there is a call of time.Sleep, and when run() is about to fetch an      *)
(* entity other than the first, the call before it was the pause.          *)
(***************************************************************************)
PolitenessDelay ==
  /\ \A n, m \in Calls("fetch") :
       n < m => \E k \in Calls("sleep") : n < k /\ k < m
  /\ (pc = "fetch" /\ i > 1) => log[Len(log)] = [op |-> "sleep", i |-> i - 1]

\* the second entity has been fetched, after the pause
PolitenessDelayWitness ==
  /\ Cardinality(Calls("fetch")) = 2
  /\ Cardinality(Calls("sleep")) = 1

\* the entries of the list, up to the one in progress, whose url is u
Occurrences(u) == {k \in 1..i : projectList[k].URL = u}

\* the units this run has committed follow this many earlier ones
Earlier == Len(committed) - Cardinality(Calls("commit"))

(***************************************************************************)
(* C19: the same identifier twice in the list of one run. When the unit of *)
(* entry i has committed, the run has committed one unit per entry 1..i,   *)
(* in list order; for every url of these entries there is one project row, *)
(* with the state and title of the url's last entry, and as many           *)
(* observation rows more than before the run as the url has entries: two   *)
(* for a url that is listed twice.                                         *)
(***************************************************************************)
DuplicateLastWins ==
  pc = "sleep" =>
    /\ Cardinality(Calls("commit")) = i
    /\ \A k \in 1..i :
         /\ committed[Earlier + k].p.URL = projectList[k].URL
         /\ committed[Earlier + k].p.State = projectList[k].State
    /\ \A k \in 1..i :
         LET u    == projectList[k].URL
             last == Max(Occurrences(u))
         IN  /\ \E r \in projects :
                  /\ ProjectRows(db, projectList[k]) = {r}
                  /\ r.state = projectList[last].State
                  /\ r.title = committed[Earlier + last].p.Title
             /\ Cardinality(ObservationsOf(u)) =
                  Cardinality({n \in UnitsFor(u) : n <= Earlier})
                    + Cardinality(Occurrences(u))

\* both entries of the list are the same url, with different states and
\* pages of different titles, and both units have committed
DuplicateLastWinsWitness ==
  /\ pc = "sleep"
  /\ i = 2
  /\ projectList[1].URL = projectList[2].URL
  /\ projectList[1].State # projectList[2].State
  /\ committed[Earlier + 1].p.Title # committed[Earlier + 2].p.Title
  /\ Cardinality(ObservationsOf(projectList[1].URL)) >= 2

\* where run() is after the step at pc went well
Succ ==
  [fetch |-> "begin", begin |-> "contents", contents |-> "projects",
   projects |-> "observations", observations |-> "commit", commit |-> "sleep"]

(***************************************************************************)
(* C20: the first failure ends the run. A step of the loop that does not   *)
(* go on to the next statement is a failure: it sets the error and leads   *)
(* to the deferred Rollback or out of run(); from there nothing is fetched,*)
(* begun or written and the tables stay as the commits before left them.   *)
(* run() returns nil only after the pause of the last entry (or at once   *)
(* when the list is empty), with one commit for each entry of the list.    *)
(* Every run ends.                                                         *)
(***************************************************************************)
FirstFailureEndsRun ==
  /\ [][(pc \in DOMAIN Succ /\ pc' # Succ[pc]) =>
          (pc' \in {"rollback", "exit"} /\ err' # NoErr)]_vars
  /\ [][(pc = "rollback") =>
          (pc' = "exit" /\ err' # NoErr /\ ~tx'.open /\ tables' = tables
           /\ committed' = committed /\ log' = log)]_vars
  /\ [][(pc = "sleep" /\ pc' # "fetch") => pc' = "exit"]_vars
  /\ [][(pc = "sleep" /\ pc' = "fetch") => i' = i + 1]_vars
  /\ [][(pc' = "exit" /\ err' = NoErr /\ pc # "exit") =>
          /\ pc \in {"sleep", "discover"}
          /\ i = Len(projectList)
          /\ \A k \in 1..Len(projectList) :
               Cardinality(CallsFor("commit", k)) = 1
          /\ Cardinality(Calls("commit")) = Len(projectList)
          /\ tables' = tables]_vars
  /\ [][\A k \in 1..Len(committed) :
          Len(committed') >= k /\ committed'[k] = committed[k]]_vars
  /\ (pc # "exit") ~> (pc = "exit")

\* the conversion of the second entity's page failed after the unit of the
\* first committed, and run() has returned
FirstFailureEndsRunWitness ==
  /\ pc = "exit"
  /\ err = "ConvertError"
  /\ Cardinality(Calls("fetch")) = 2
  /\ Cardinality(Calls("commit")) = 1
  /\ Len(committed) >= 1

====
